---- MODULE Spec2Model ----
(***************************************************************************)
(* A model of the SPADE fork's conditional normalization layer             *)
(* (models/networks/normalization.py) and of its paired-image dataset      *)
(* loader (data/pix2pix_dataset.py).                                       *)
(*                                                                         *)
(* Text (config_text, norm_type, file paths) is a sequence of one-letter   *)
(* strings, so that startswith, slicing, re.search, basename and splitext  *)
(* are computed, not assumed.  A tensor is t[c][i][j] (channel, row,       *)
(* column: a batch of one).  Activations after the LeakyReLU(0.2) are      *)
(* held in units of 1/LeakyDen, which makes the arithmetic exact.          *)
(***************************************************************************)
EXTENDS Integers, Sequences, FiniteSets, TLC

VARIABLES
    ctor,       \* the arguments of SPADE.__init__ and what it raised
    spade,      \* the SPADE object's fields
    fwd,        \* the last SPADE.forward call: arguments, locals, result
    opt,        \* the dataset's options
    paths,      \* what get_paths returned
    ds,         \* the Pix2pixDataset object's fields after initialize
    item,       \* the last __getitem__ call
    nn          \* get_nonspade_norm_layer: norm_type, the layer, the result

vars == <<ctor, spade, fwd, opt, paths, ds, item, nn>>

(***************************************************************************)
(* Text                                                                    *)
(***************************************************************************)
Digits == <<"0", "1", "2", "3", "4", "5", "6", "7", "8", "9">>

IsDigit(ch) == \E d \in 1..Len(Digits) : Digits[d] = ch

\* int() of one decimal digit
DigitValue(ch) == (CHOOSE d \in 1..Len(Digits) : Digits[d] = ch) - 1

\* text[from:] with a 0-based start, as Python slices
SliceFrom(text, from) == SubSeq(text, from + 1, Len(text))

\* str.startswith
StartsWith(text, prefix) ==
    /\ Len(text) >= Len(prefix)
    /\ SubSeq(text, 1, Len(prefix)) = prefix

RECURSIVE SumSeq(_)
SumSeq(s) == IF s = <<>> THEN 0 ELSE Head(s) + SumSeq(Tail(s))

Max(S) == CHOOSE m \in S : \A n \in S : n <= m
Min(S) == CHOOSE m \in S : \A n \in S : m <= n

(***************************************************************************)
(* models/networks/normalization.py: class SPADE                           *)
(***************************************************************************)
SPADE_PREFIX == <<"s", "p", "a", "d", "e">>

\* re.search('spade(\D+)(\d)x\d', text), matching at the 0-based offset s with
\* len(group(1)) = l: the literal, l non-digits, a digit, 'x', a digit.
MatchesAt(text, s, l) ==
    /\ l >= 1
    /\ s + 8 + l <= Len(text)
    /\ SubSeq(text, s + 1, s + 5) = SPADE_PREFIX
    /\ \A k \in (s + 6)..(s + 5 + l) : ~IsDigit(text[k])
    /\ IsDigit(text[s + 6 + l])
    /\ text[s + 7 + l] = "x"
    /\ IsDigit(text[s + 8 + l])

MatchLens(text, s) == {l \in 1..Len(text) : MatchesAt(text, s, l)}

MatchStarts(text) == {s \in 0..Len(text) : MatchLens(text, s) # {}}

\* The match object: the leftmost start, and there the longest \D+ (greedy).
\* matched = FALSE is Python's None.
ReSearch(text) ==
    IF MatchStarts(text) = {}
    THEN [matched |-> FALSE, group1 |-> <<>>, group2 |-> "0"]
    ELSE LET s == Min(MatchStarts(text))
             l == Max(MatchLens(text, s))
         IN  [matched |-> TRUE,
              group1  |-> SubSeq(text, s + 6, s + 5 + l),
              group2  |-> text[s + 6 + l]]

INSTANCE_NAME  == <<"i", "n", "s", "t", "a", "n", "c", "e">>
SYNCBATCH_NAME == <<"s", "y", "n", "c", "b", "a", "t", "c", "h">>
BATCH_NAME     == <<"b", "a", "t", "c", "h">>

\* The hidden channels of the model (the source's nhidden is 128).
NHidden == 2

\* The largest height and width of a tensor.
MaxDim == 2

\* nn.LeakyReLU(0.2): the slope is 1/LeakyDen
LeakyDen == 5

\* nn.Conv2d(in, out, kernel_size, padding, dilation); id and seed stand for the
\* layer's own pseudo-random initial weight and bias.
Conv2dLayer(id, seed, inC, outC, ks, padding, dilation) ==
    [id |-> id, seed |-> seed, in_channels |-> inC, out_channels |-> outC,
     kernel_size |-> ks, padding |-> padding, dilation |-> dilation]

\* The fields SPADE.__init__ sets, for a parsed norm class and kernel size.
SpadeFields(cls, ks, norm_nc, label_nc, seed) ==
    LET nhidden == NHidden
        pw == ks \div 2
    IN  [param_free_norm |-> [cls |-> cls, num_features |-> norm_nc, affine |-> FALSE],
         mlp_shared_2  |-> Conv2dLayer(1, seed, label_nc, nhidden, ks, 2, 2),
         mlp_gamma_2   |-> Conv2dLayer(2, seed, nhidden, norm_nc, ks, 2, 2),
         mlp_beta_2    |-> Conv2dLayer(3, seed, nhidden, norm_nc, ks, 2, 2),
         mlp_shared_4  |-> Conv2dLayer(4, seed, label_nc, nhidden, ks, 4, 4),
         mlp_gamma_4   |-> Conv2dLayer(5, seed, nhidden, norm_nc, ks, 4, 4),
         mlp_beta_4    |-> Conv2dLayer(6, seed, nhidden, norm_nc, ks, 4, 4),
         mlp_shared_8  |-> Conv2dLayer(7, seed, label_nc, nhidden, ks, 8, 8),
         mlp_gamma_8   |-> Conv2dLayer(8, seed, nhidden, norm_nc, ks, 8, 8),
         mlp_beta_8    |-> Conv2dLayer(9, seed, nhidden, norm_nc, ks, 8, 8),
         mlp_shared_16 |-> Conv2dLayer(10, seed, label_nc, nhidden, ks, 16, 16),
         mlp_gamma_16  |-> Conv2dLayer(11, seed, nhidden, norm_nc, ks, 16, 16),
         mlp_beta_16   |-> Conv2dLayer(12, seed, nhidden, norm_nc, ks, 16, 16),
         mlp_shared    |-> Conv2dLayer(13, seed, label_nc, nhidden, ks, pw, 1),
         mlp_gamma     |-> Conv2dLayer(14, seed, nhidden, norm_nc, ks, pw, 1),
         mlp_beta      |-> Conv2dLayer(15, seed, nhidden, norm_nc, ks, pw, 1)]

\* SPADE.__init__: what it raises ("" when it returns) and the object, if any.
SpadeInit(config_text, norm_nc, label_nc, seed) ==
    IF ~StartsWith(config_text, SPADE_PREFIX)
    THEN [raised |-> "AssertionError", obj |-> <<>>]
    ELSE LET parsed == ReSearch(config_text)
         IN  IF ~parsed.matched
             THEN [raised |-> "AttributeError", obj |-> <<>>]   \* None.group(1)
             ELSE LET param_free_norm_type == parsed.group1
                      ks == DigitValue(parsed.group2)
                  IN  IF param_free_norm_type = INSTANCE_NAME
                      THEN [raised |-> "",
                            obj |-> <<SpadeFields("InstanceNorm2d", ks, norm_nc, label_nc, seed)>>]
                      ELSE IF param_free_norm_type = SYNCBATCH_NAME
                      THEN [raised |-> "",
                            obj |-> <<SpadeFields("SynchronizedBatchNorm2d", ks, norm_nc, label_nc, seed)>>]
                      ELSE IF param_free_norm_type = BATCH_NAME
                      THEN [raised |-> "",
                            obj |-> <<SpadeFields("BatchNorm2d", ks, norm_nc, label_nc, seed)>>]
                      ELSE [raised |-> "ValueError", obj |-> <<>>]

(***************************************************************************)
(* Tensors t[c][i][j] and the torch operations SPADE.forward calls         *)
(***************************************************************************)
Chans(t) == Len(t)
Rows(t)  == Len(t[1])
Cols(t)  == Len(t[1][1])

\* t[c][i][j], and 0 in the zero padding around it
Padded(t, c, i, j) ==
    IF i >= 1 /\ i <= Rows(t) /\ j >= 1 /\ j <= Cols(t) THEN t[c][i][j] ELSE 0

\* The initial weight and bias of a layer: pseudo-random in {-1, 0, 1}, all 0
\* for seed 0.
Weight(layer, o, c, a, b) ==
    ((layer.seed * (layer.id * o + c * a + b) + 1) % 3) - 1

Bias(layer, o) == ((layer.seed * (layer.id + o) + 1) % 3) - 1

\* The output height (width) of a stride-1 convolution of an input of height n.
ConvOutDim(layer, n) ==
    n + 2 * layer.padding - layer.dilation * (layer.kernel_size - 1)

\* Whether Conv2d accepts the input: the channels agree and the dilated kernel
\* fits in the padded input.
ConvAccepts(layer, inp) ==
    /\ Chans(inp) = layer.in_channels
    /\ ConvOutDim(layer, Rows(inp)) >= 1
    /\ ConvOutDim(layer, Cols(inp)) >= 1

\* Conv2d.forward; inp and the result are in units of 1/unit.
Conv2d(layer, inp, unit) ==
    [o \in 1..layer.out_channels |->
      [i \in 1..ConvOutDim(layer, Rows(inp)) |->
        [j \in 1..ConvOutDim(layer, Cols(inp)) |->
          unit * Bias(layer, o)
          + SumSeq([c \in 1..layer.in_channels |->
              SumSeq([a \in 1..layer.kernel_size |->
                SumSeq([b \in 1..layer.kernel_size |->
                  Weight(layer, o, c, a, b)
                  * Padded(inp, c,
                           i + (a - 1) * layer.dilation - layer.padding,
                           j + (b - 1) * layer.dilation - layer.padding)])])])]]]

\* nn.LeakyReLU(0.2) of a tensor in units of 1; the result is in units of
\* 1/LeakyDen.
LeakyReLU(t) ==
    [c \in 1..Chans(t) |-> [i \in 1..Rows(t) |-> [j \in 1..Cols(t) |->
        IF t[c][i][j] >= 0 THEN LeakyDen * t[c][i][j] ELSE t[c][i][j]]]]

\* F.interpolate(t, size=(h, w), mode='nearest'): the source pixel of the
\* 0-based destination d is floor(d * in / out).
Interpolate(t, h, w) ==
    [c \in 1..Chans(t) |-> [i \in 1..h |-> [j \in 1..w |->
        t[c][((i - 1) * Rows(t)) \div h + 1][((j - 1) * Cols(t)) \div w + 1]]]]

\* self.param_free_norm(x).  InstanceNorm2d, BatchNorm2d and
\* SynchronizedBatchNorm2d, without affine parameters and on a batch of one in
\* training, all give (x - mean) / sqrt(var + eps) per channel: the deviation
\* from the channel's mean times a positive factor.  With n pixels that is
\* k * (n * x - sum(x)), where the integer k stands for 1 / (n * std).
ParamFreeNorm(norm, x, k) ==
    [c \in 1..Chans(x) |->
      LET n == Rows(x) * Cols(x)
          total == SumSeq([i \in 1..Rows(x) |-> SumSeq(x[c][i])])
      IN  [i \in 1..Rows(x) |-> [j \in 1..Cols(x) |->
              k * (n * x[c][i][j] - total)]]]

\* Broadcasting of two sizes of one dimension.
Broadcastable(m, n) == m = n \/ m = 1 \/ n = 1

BIndex(i, n) == IF n = 1 THEN 1 ELSE i

BSize(m, n) == IF m = 1 THEN n ELSE m

(***************************************************************************)
(* SPADE.forward                                                           *)
(***************************************************************************)
\* torch.cat((other_channels, segmap), dim=1) needs equal heights and widths.
CatAccepts(other_channels, segmap) ==
    /\ Rows(other_channels) = Rows(segmap)
    /\ Cols(other_channels) = Cols(segmap)

\* The layers that produce actv, gamma and beta for a segmentation map of
\* height segmap_shape: the dilated branches are commented out.
Branch(obj, segmap_shape) ==
    [shared |-> obj.mlp_shared, gamma |-> obj.mlp_gamma, beta |-> obj.mlp_beta]

\* normalized * (1 + gamma) + beta accepts shapes that broadcast.
ModulateAccepts(normalized, gamma) ==
    /\ Chans(normalized) = Chans(gamma)
    /\ Broadcastable(Rows(normalized), Rows(gamma))
    /\ Broadcastable(Cols(normalized), Cols(gamma))

ModulateNoOne(normalized, gamma, beta) ==
    [c \in 1..Chans(normalized) |->
      [i \in 1..BSize(Rows(normalized), Rows(gamma)) |->
        [j \in 1..BSize(Cols(normalized), Cols(gamma)) |->
          normalized[c][BIndex(i, Rows(normalized))][BIndex(j, Cols(normalized))]
            * gamma[c][BIndex(i, Rows(gamma))][BIndex(j, Cols(gamma))]
          + beta[c][BIndex(i, Rows(beta))][BIndex(j, Cols(beta))]]]]

\* out = normalized * (1 + gamma) + beta, with gamma, beta and out in units of
\* 1/LeakyDen and normalized in units of 1.
Modulate(normalized, gamma, beta) ==
    [c \in 1..Chans(normalized) |->
      [i \in 1..BSize(Rows(normalized), Rows(gamma)) |->
        [j \in 1..BSize(Cols(normalized), Cols(gamma)) |->
          normalized[c][BIndex(i, Rows(normalized))][BIndex(j, Cols(normalized))]
            * (LeakyDen + gamma[c][BIndex(i, Rows(gamma))][BIndex(j, Cols(gamma))])
          + beta[c][BIndex(i, Rows(beta))][BIndex(j, Cols(beta))]]]]

\* A forward call that raised: the locals it never reached stay empty.
ForwardRaised(x, segmap, other_channels, normalized, all_layers) ==
    [x |-> x, segmap |-> segmap, other_channels |-> other_channels,
     raised |-> "RuntimeError", normalized |-> normalized,
     all_layers |-> all_layers, actv |-> <<>>, gamma |-> <<>>, beta |-> <<>>,
     out |-> <<>>]

\* SPADE.forward(x, segmap, other_channels); k is the normalization's factor.
SpadeForward(obj, x, segmap, other_channels, k) ==
    LET normalized == ParamFreeNorm(obj.param_free_norm, x, k)
        resized == Interpolate(segmap, Rows(x), Cols(x))
        segmap_shape == Rows(resized)
    IN  IF Len(other_channels) # 0 /\ ~CatAccepts(other_channels, resized)
        THEN ForwardRaised(x, segmap, other_channels, normalized, <<>>)
        ELSE
        LET all_layers == IF Len(other_channels) = 0 THEN resized
                          ELSE other_channels \o resized
            branch == Branch(obj, segmap_shape)
        IN  IF ~ConvAccepts(branch.shared, all_layers)
            THEN ForwardRaised(x, segmap, other_channels, normalized, all_layers)
            ELSE
            LET actv == LeakyReLU(Conv2d(branch.shared, all_layers, 1))
            IN  IF ~ConvAccepts(branch.gamma, actv) \/ ~ConvAccepts(branch.beta, actv)
                THEN ForwardRaised(x, segmap, other_channels, normalized, all_layers)
                ELSE
                LET gamma == Conv2d(branch.gamma, actv, LeakyDen)
                    beta  == Conv2d(branch.beta, actv, LeakyDen)
                IN  IF ~ModulateAccepts(normalized, gamma)
                    THEN ForwardRaised(x, segmap, other_channels, normalized, all_layers)
                    ELSE [x |-> x, segmap |-> segmap,
                          other_channels |-> other_channels, raised |-> "",
                          normalized |-> normalized, all_layers |-> all_layers,
                          actv |-> actv, gamma |-> gamma, beta |-> beta,
                          out |-> Modulate(normalized, gamma, beta)]

(***************************************************************************)
(* The arguments the SPADE layer is constructed and called with            *)
(***************************************************************************)
Cfg(norm, ks) == SPADE_PREFIX \o norm \o ks

SPECTRAL == <<"s", "p", "e", "c", "t", "r", "a", "l">>

ConfigTexts ==
    { Cfg(INSTANCE_NAME, <<"3", "x", "3">>),
      Cfg(SYNCBATCH_NAME, <<"3", "x", "3">>),
      Cfg(BATCH_NAME, <<"1", "x", "1">>),
      Cfg(BATCH_NAME, <<"2", "x", "2">>),
      Cfg(INSTANCE_NAME, <<"5", "x", "5">>),
      Cfg(BATCH_NAME, <<"3", "x", "5">>),
      Cfg(INSTANCE_NAME, <<"1", "1", "x", "1", "1">>),
      Cfg(<<"f", "o", "o">>, <<"3", "x", "3">>),
      Cfg(<<"f", "o", "o">>, <<"1", "1", "x", "1", "1">>),
      Cfg(<<"s", "y", "n", "c", "_", "b", "a", "t", "c", "h">>, <<"3", "x", "3">>),
      Cfg(<<>>, <<"3", "x", "3">>),
      Cfg(INSTANCE_NAME, <<>>),
      INSTANCE_NAME \o <<"3", "x", "3">>,
      SPECTRAL \o Cfg(BATCH_NAME, <<"3", "x", "3">>) }

NormNcs  == {1, 2}
LabelNcs == {1, 2}
Seeds    == {0, 1, 2}
Patterns == {0, 1, 2}
Factors  == {1, 2}

\* An activation tensor x of a given shape.
XTensor(C, H, W, p) ==
    [c \in 1..C |-> [i \in 1..H |-> [j \in 1..W |-> (p * (c + i + 2 * j)) % 3]]]

\* A one-hot segmentation map with C classes.
SegTensor(C, H, W, p) ==
    [c \in 1..C |-> [i \in 1..H |-> [j \in 1..W |->
        IF ((p * (i + 2 * j)) % C) + 1 = c THEN 1 ELSE 0]]]

\* other_channels: the default [], one extra channel of x's size, or one of
\* another size.
OtherChannels(H, W, p) ==
    { <<>>, XTensor(1, H, W, p + 1), XTensor(1, H + 1, W, p + 1) }

(***************************************************************************)
(* The SPADE layer as a state machine: construct once, then call forward.  *)
(***************************************************************************)
NoData == /\ opt = <<>> /\ paths = <<>> /\ ds = <<>> /\ item = <<>>

InitSpade ==
    /\ ctor = <<>>
    /\ spade = <<>>
    /\ fwd = <<>>
    /\ NoData
    /\ nn = <<>>

\* SPADE(config_text, norm_nc, label_nc)
Construct ==
    /\ ctor = <<>>
    /\ \E config_text \in ConfigTexts, norm_nc \in NormNcs,
          label_nc \in LabelNcs, seed \in Seeds :
         LET r == SpadeInit(config_text, norm_nc, label_nc, seed)
         IN  /\ ctor' = <<[config_text |-> config_text, norm_nc |-> norm_nc,
                           label_nc |-> label_nc, raised |-> r.raised]>>
             /\ spade' = r.obj
    /\ UNCHANGED <<fwd, opt, paths, ds, item, nn>>

\* spade(x, segmap, other_channels).  A call reads nothing an earlier call
\* wrote, so one call per object shows them all.
Forward ==
    /\ spade # <<>>
    /\ fwd = <<>>
    /\ \E H \in 1..MaxDim, W \in 1..MaxDim, S \in 1..MaxDim,
          C \in LabelNcs, p \in Patterns, k \in Factors :
       \E other_channels \in OtherChannels(H, W, p) :
         fwd' = <<SpadeForward(spade[1],
                               XTensor(spade[1].param_free_norm.num_features, H, W, p),
                               SegTensor(C, S, S, p), other_channels, k)>>
    /\ UNCHANGED <<ctor, spade, opt, paths, ds, item, nn>>

NextSpade == Construct \/ Forward

SpecSpade == InitSpade /\ [][NextSpade]_vars

(***************************************************************************)
(* data/pix2pix_dataset.py: file names                                     *)
(***************************************************************************)
\* The 1-based place of the last ch in text, 0 when there is none (str.rfind).
LastIndexOf(text, ch) == Max({0} \cup {k \in 1..Len(text) : text[k] = ch})

\* os.path.basename
Basename(path) == SliceFrom(path, LastIndexOf(path, "/"))

\* os.path.splitext: the last dot splits, unless only dots come before it in
\* the file name.
Splitext(path) ==
    LET sepIndex == LastIndexOf(path, "/")
        dotIndex == LastIndexOf(path, ".")
    IN  IF /\ dotIndex > sepIndex
           /\ \E k \in (sepIndex + 1)..(dotIndex - 1) : path[k] # "."
        THEN <<SubSeq(path, 1, dotIndex - 1), SubSeq(path, dotIndex, Len(path))>>
        ELSE <<path, <<>>>>

\* Pix2pixDataset.paths_match
paths_match(path1, path2) ==
    LET filename1_without_ext == Splitext(Basename(path1))[1]
        filename2_without_ext == Splitext(Basename(path2))[1]
    IN  filename1_without_ext = filename2_without_ext

(***************************************************************************)
(* util.natural_sort: list.sort with the key re.split('(\d+)', text), whose *)
(* digit runs are compared as numbers and whose other runs as text.         *)
(***************************************************************************)
Ascii ==
    <<".", "/", "0", "1", "2", "3", "4", "5", "6", "7", "8", "9", "_",
      "a", "b", "c", "d", "e", "f", "g", "h", "i", "j", "k", "l", "m",
      "n", "o", "p", "q", "r", "s", "t", "u", "v", "w", "x", "y", "z">>

Ord(ch) == CHOOSE k \in 1..Len(Ascii) : Ascii[k] = ch

\* text < other, as Python compares strings
RECURSIVE StrLess(_, _)
StrLess(text, other) ==
    IF other = <<>> THEN FALSE
    ELSE IF text = <<>> THEN TRUE
    ELSE IF Head(text) # Head(other) THEN Ord(Head(text)) < Ord(Head(other))
    ELSE StrLess(Tail(text), Tail(other))

\* The length of the leading run of digits (digit = TRUE) or of non-digits.
RECURSIVE RunLen(_, _)
RunLen(text, digit) ==
    IF text = <<>> \/ IsDigit(Head(text)) # digit THEN 0
    ELSE 1 + RunLen(Tail(text), digit)

\* int() of a run of digits
RECURSIVE IntOf(_)
IntOf(digits) ==
    IF digits = <<>> THEN 0
    ELSE 10 * IntOf(SubSeq(digits, 1, Len(digits) - 1)) + DigitValue(digits[Len(digits)])

\* natural_keys(text) < natural_keys(other): the keys are lists that start with
\* a text run and alternate with numbers.
RECURSIVE NaturalLess(_, _)
NaturalLess(text, other) ==
    LET t1 == SubSeq(text, 1, RunLen(text, FALSE))
        t2 == SubSeq(other, 1, RunLen(other, FALSE))
        r1 == SliceFrom(text, Len(t1))
        r2 == SliceFrom(other, Len(t2))
        d1 == SubSeq(r1, 1, RunLen(r1, TRUE))
        d2 == SubSeq(r2, 1, RunLen(r2, TRUE))
    IN  IF t1 # t2 THEN StrLess(t1, t2)
        ELSE IF r2 = <<>> THEN FALSE
        ELSE IF r1 = <<>> THEN TRUE
        ELSE IF IntOf(d1) # IntOf(d2) THEN IntOf(d1) < IntOf(d2)
        ELSE NaturalLess(SliceFrom(r1, Len(d1)), SliceFrom(r2, Len(d2)))

\* One item put into a sorted list, after the items that are not greater.
RECURSIVE InsertSorted(_, _)
InsertSorted(sorted, x) ==
    IF sorted = <<>> THEN <<x>>
    ELSE IF NaturalLess(x, Head(sorted)) THEN <<x>> \o sorted
    ELSE <<Head(sorted)>> \o InsertSorted(Tail(sorted), x)

RECURSIVE natural_sort(_)
natural_sort(items) ==
    IF items = <<>> THEN <<>>
    ELSE InsertSorted(natural_sort(SubSeq(items, 1, Len(items) - 1)), items[Len(items)])

\* items[:n]
Take(items, n) == SubSeq(items, 1, Min({n, Len(items)}))

(***************************************************************************)
(* data/pix2pix_dataset.py: class Pix2pixDataset                           *)
(***************************************************************************)
\* The most files get_paths lists in a directory.
MaxFiles == 2

\* A directory listing: the lists of one to n different members of S, in any
\* order.
Lists(S, n) ==
    {l \in UNION {[1..m -> S] : m \in 1..n} :
        \A a, b \in 1..Len(l) : l[a] = l[b] => a = b}

LabelFiles ==
    { <<"a", "/", "1", ".", "p">>, <<"a", "/", "2", ".", "p">>,
      <<"a", "/", "1", "0", ".", "p">> }

ImageFiles ==
    { <<"b", "/", "1", ".", "j">>, <<"b", "/", "2", ".", "j">>,
      <<"b", "/", "1", "0", ".", "j">> }

InputFiles ==
    { <<"c", "/", "1", ".", "t">>, <<"c", "/", "2">>,
      <<"c", "/", "1", "0", ".", "t">> }

InstanceLists ==
    { <<>>, << <<"d", "/", "2", ".", "p">>, <<"d", "/", "1", ".", "p">> >> }

\* The fields initialize sets; a failed assert leaves them unset.
Unset(raised) ==
    [raised |-> raised, label_paths |-> <<>>, image_paths |-> <<>>,
     input_paths |-> <<>>, instance_paths |-> <<>>, dataset_size |-> 0]

\* zip(label_paths, image_paths, input_paths): as long as the shortest.
ZipLen(label_paths, image_paths, input_paths) ==
    Min({Len(label_paths), Len(image_paths), Len(input_paths)})

\* The loop of asserts in initialize: whether every zipped triple passes.
PairingCheck(label_paths, image_paths, input_paths) ==
    \A k \in 1..ZipLen(label_paths, image_paths, input_paths) :
        /\ paths_match(label_paths[k], image_paths[k])
        /\ paths_match(label_paths[k], input_paths[k])

\* Whether initialize runs the pairing check.
ChecksPairing(o) == ~o.no_pairing_check

\* Pix2pixDataset.initialize(opt), given what get_paths returned.
Initialized(o, got) ==
    LET label_paths == Take(natural_sort(got.label_paths), o.max_dataset_size)
        image_paths == Take(natural_sort(got.image_paths), o.max_dataset_size)
        input_paths == Take(natural_sort(got.input_paths), o.max_dataset_size)
        instance_paths ==
            Take(IF ~o.no_instance THEN natural_sort(got.instance_paths)
                 ELSE got.instance_paths, o.max_dataset_size)
    IN  IF ChecksPairing(o) /\ ~PairingCheck(label_paths, image_paths, input_paths)
        THEN Unset("AssertionError")
        ELSE [raised |-> "", label_paths |-> label_paths,
              image_paths |-> image_paths, input_paths |-> input_paths,
              instance_paths |-> instance_paths,
              dataset_size |-> Len(label_paths)]

\* Pix2pixDataset.__getitem__(index), index counted from 0; the files
\* themselves are taken to open.  What it raises and the 'path' it returns.
GetItemResult(self, o, index) ==
    LET label_path == self.label_paths[index + 1] IN
    IF index + 1 > Len(self.image_paths)
    THEN [index |-> index, raised |-> "IndexError", path |-> <<>>]
    ELSE LET image_path == self.image_paths[index + 1] IN
    IF ~paths_match(label_path, image_path)
    THEN [index |-> index, raised |-> "AssertionError", path |-> <<>>]
    ELSE IF index + 1 > Len(self.input_paths)
    THEN [index |-> index, raised |-> "IndexError", path |-> <<>>]
    ELSE LET input_path == self.input_paths[index + 1] IN
    IF ~paths_match(label_path, input_path)
    THEN [index |-> index, raised |-> "AssertionError", path |-> <<>>]
    ELSE IF ~o.no_instance /\ index + 1 > Len(self.instance_paths)
    THEN [index |-> index, raised |-> "IndexError", path |-> <<>>]
    ELSE [index |-> index, raised |-> "", path |-> image_path]

NoSpade == /\ ctor = <<>> /\ spade = <<>> /\ fwd = <<>>

\* A dataset object before initialize: the options parsed, the directories
\* as get_paths will list them.
InitData ==
    /\ NoSpade
    /\ nn = <<>>
    /\ \E no_pairing_check \in BOOLEAN, no_instance \in BOOLEAN,
          max_dataset_size \in {1, MaxFiles}, no_flip \in BOOLEAN :
         opt = <<[no_pairing_check |-> no_pairing_check,
                  no_instance |-> no_instance,
                  max_dataset_size |-> max_dataset_size,
                  no_flip |-> no_flip]>>
    /\ \E label_paths \in Lists(LabelFiles, MaxFiles),
          image_paths \in Lists(ImageFiles, MaxFiles),
          input_paths \in Lists(InputFiles, MaxFiles),
          instance_paths \in InstanceLists :
         paths = <<[label_paths |-> label_paths, image_paths |-> image_paths,
                    input_paths |-> input_paths,
                    instance_paths |-> instance_paths]>>
    /\ ds = <<>>
    /\ item = <<>>

\* dataset.initialize(opt)
Initialize ==
    /\ opt # <<>>
    /\ ds = <<>>
    /\ ds' = <<Initialized(opt[1], paths[1])>>
    /\ UNCHANGED <<ctor, spade, fwd, opt, paths, item, nn>>

\* dataset[index] for a valid index
GetItem ==
    /\ ds # <<>>
    /\ ds[1].raised = ""
    /\ \E index \in 0..(ds[1].dataset_size - 1) :
         item' = <<GetItemResult(ds[1], opt[1], index)>>
    /\ opt' = <<[opt[1] EXCEPT !.no_flip = TRUE]>>
    /\ UNCHANGED <<ctor, spade, fwd, paths, ds, nn>>

NextData == Initialize \/ GetItem

SpecData == InitData /\ [][NextData]_vars

(***************************************************************************)
(* models/networks/normalization.py: get_nonspade_norm_layer               *)
(***************************************************************************)
NONE_NAME       == <<"n", "o", "n", "e">>
SYNC_BATCH_NAME == <<"s", "y", "n", "c", "_", "b", "a", "t", "c", "h">>

NormTypes ==
    { NONE_NAME, BATCH_NAME, SYNC_BATCH_NAME, INSTANCE_NAME,
      SPECTRAL \o NONE_NAME, SPECTRAL \o BATCH_NAME,
      SPECTRAL \o SYNC_BATCH_NAME, SPECTRAL \o INSTANCE_NAME,
      SPECTRAL, <<>>, <<"f", "o", "o">>, SPECTRAL \o <<"f", "o", "o">>,
      SYNCBATCH_NAME, SPECTRAL \o SYNCBATCH_NAME }

OutChannels == {1, 2}

\* The layers add_norm_layer is given: a Conv2d has out_channels, a Linear
\* only its weight; either may have a bias.
Layers ==
    [cls : {"Conv2d", "Linear"}, channels : OutChannels, bias : BOOLEAN,
     spectral : {FALSE}]

\* get_out_channel(layer): layer.out_channels where the layer has it, else
\* layer.weight.size(0); channels holds whichever applies.
get_out_channel(layer) == layer.channels

\* spectral_norm(layer)
spectral_norm(layer) == [layer EXCEPT !.spectral = TRUE]

\* The subnorm_type add_norm_layer works with.
SubnormType(norm_type) ==
    IF StartsWith(norm_type, SPECTRAL)
    THEN SliceFrom(norm_type, Len(SPECTRAL))
    ELSE NONE_NAME

\* add_norm_layer(layer): what it raises and what it returns, a layer or a
\* Sequential of two.
add_norm_layer(norm_type, layer0) ==
    LET layer == IF StartsWith(norm_type, SPECTRAL) THEN spectral_norm(layer0)
                 ELSE layer0
        subnorm_type == SubnormType(norm_type)
        bare == [layer EXCEPT !.bias = FALSE]
    IN  IF subnorm_type = NONE_NAME \/ Len(subnorm_type) = 0
        THEN [raised |-> "", returned |-> <<layer>>]
        ELSE IF subnorm_type = BATCH_NAME
        THEN [raised |-> "",
              returned |-> <<bare, [cls |-> "BatchNorm2d",
                                    num_features |-> get_out_channel(bare),
                                    affine |-> TRUE]>>]
        ELSE IF subnorm_type = SYNC_BATCH_NAME
        THEN [raised |-> "",
              returned |-> <<bare, [cls |-> "SynchronizedBatchNorm2d",
                                    num_features |-> get_out_channel(bare),
                                    affine |-> TRUE]>>]
        ELSE IF subnorm_type = INSTANCE_NAME
        THEN [raised |-> "",
              returned |-> <<bare, [cls |-> "InstanceNorm2d",
                                    num_features |-> get_out_channel(bare),
                                    affine |-> FALSE]>>]
        ELSE [raised |-> "ValueError", returned |-> <<>>]

\* After get_nonspade_norm_layer(opt, norm_type): the closure holds norm_type.
InitNorm ==
    /\ NoSpade
    /\ NoData
    /\ \E norm_type \in NormTypes :
         nn = <<[norm_type |-> norm_type, layer |-> <<>>, raised |-> "",
                 returned |-> <<>>]>>

\* add_norm_layer(layer) on a fresh layer
AddNormLayer ==
    /\ nn # <<>>
    /\ \E layer \in Layers :
         LET r == add_norm_layer(nn[1].norm_type, layer)
         IN  nn' = <<[norm_type |-> nn[1].norm_type, layer |-> <<layer>>,
                      raised |-> r.raised, returned |-> r.returned]>>
    /\ UNCHANGED <<ctor, spade, fwd, opt, paths, ds, item>>

NextNorm == AddNormLayer

SpecNorm == InitNorm /\ [][NextNorm]_vars

(***************************************************************************)
(* Claims about SPADE.forward                                              *)
(***************************************************************************)
\* The places of a tensor.
Places(t) == {<<c, i, j>> \in (1..Chans(t)) \X (1..Rows(t)) \X (1..Cols(t)) : TRUE}

\* The element of t that broadcasting pairs with the place q of the result.
BAt(t, q) == t[q[1]][BIndex(q[2], Rows(t))][BIndex(q[3], Cols(t))]

\* C1: when forward returns, every element of out is
\* normalized * (1 + gamma) + beta of the elements at its place (out, gamma and
\* beta in units of 1/LeakyDen); where gamma and beta are 0 it is the
\* normalized activation; and actv, gamma and beta are what mlp_shared,
\* mlp_gamma and mlp_beta give for the concatenated segmentation map.
C1_ForwardModulates ==
    \A n \in 1..Len(fwd) :
        fwd[n].raised = "" =>
            LET f == fwd[n]
                obj == spade[1]
            IN  /\ f.actv = LeakyReLU(Conv2d(obj.mlp_shared, f.all_layers, 1))
                /\ f.gamma = Conv2d(obj.mlp_gamma, f.actv, LeakyDen)
                /\ f.beta = Conv2d(obj.mlp_beta, f.actv, LeakyDen)
                /\ Chans(f.out) = Chans(f.normalized)
                /\ Rows(f.out) = BSize(Rows(f.normalized), Rows(f.gamma))
                /\ Cols(f.out) = BSize(Cols(f.normalized), Cols(f.gamma))
                /\ \A q \in Places(f.out) :
                     /\ BAt(f.out, q)
                          = BAt(f.normalized, q) * (LeakyDen + BAt(f.gamma, q))
                            + BAt(f.beta, q)
                     /\ (BAt(f.gamma, q) = 0 /\ BAt(f.beta, q) = 0)
                          => BAt(f.out, q) = LeakyDen * BAt(f.normalized, q)

\* C1's case: a call that returned, with a place where gamma and beta are 0 and
\* the activation is not, and a place where gamma, beta and the activation
\* are all other than 0.
C1_Witness ==
    /\ fwd # <<>>
    /\ fwd[1].raised = ""
    /\ \E q \in Places(fwd[1].out) :
         /\ BAt(fwd[1].gamma, q) = 0
         /\ BAt(fwd[1].beta, q) = 0
         /\ BAt(fwd[1].normalized, q) # 0
    /\ \E q \in Places(fwd[1].out) :
         /\ BAt(fwd[1].gamma, q) # 0
         /\ BAt(fwd[1].beta, q) # 0
         /\ BAt(fwd[1].normalized, q) # 0

(***************************************************************************)
(* Claims about SPADE.__init__                                             *)
(***************************************************************************)
RecognizedNorms == {INSTANCE_NAME, SYNCBATCH_NAME, BATCH_NAME}

\* The class each recognized name stands for.
NormClass(norm) ==
    IF norm = INSTANCE_NAME THEN "InstanceNorm2d"
    ELSE IF norm = SYNCBATCH_NAME THEN "SynchronizedBatchNorm2d"
    ELSE "BatchNorm2d"

\* The decimal numeral of k >= 1
RECURSIVE Numeral(_)
Numeral(k) ==
    IF k < 10 THEN <<Digits[k + 1]>>
    ELSE Numeral(k \div 10) \o <<Digits[(k % 10) + 1]>>

\* The kernel sizes a config_text may name.
KernelSizes == {1, 2, 3, 5, 11}

\* spade(norm)(ks) for a k x k kernel, as in spadesyncbatch3x3
ConfigFor(norm, k) == Cfg(norm, Numeral(k) \o <<"x">> \o Numeral(k))

\* What the claim says of the object built from spade(norm)(k x k).
BuiltAs(norm, k) ==
    /\ ctor[1].raised = ""
    /\ spade # <<>>
    /\ spade[1].param_free_norm.cls = NormClass(norm)
    /\ spade[1].param_free_norm.affine = FALSE
    /\ spade[1].mlp_shared.kernel_size = k
    /\ spade[1].mlp_gamma.kernel_size = k
    /\ spade[1].mlp_beta.kernel_size = k

\* C2: a config_text spade(norm)(ks) builds an object with the normalization
\* (norm) names, without affine parameters, and with the kernel size (ks)
\* names in the convolutions that give gamma and beta.
C2_ConfigSelectsNormAndKernel ==
    \A n \in 1..Len(ctor) :
        \A norm \in RecognizedNorms, k \in KernelSizes :
            ctor[n].config_text = ConfigFor(norm, k) => BuiltAs(norm, k)

\* The part of C2 the code keeps: kernel sizes of one digit.
C2_OneDigitKernel ==
    \A n \in 1..Len(ctor) :
        \A norm \in RecognizedNorms, k \in {j \in KernelSizes : j < 10} :
            ctor[n].config_text = ConfigFor(norm, k) => BuiltAs(norm, k)

\* The (norm) of a config_text: what follows 'spade' up to the first digit.
NormPart(config_text) ==
    LET rest == SliceFrom(config_text, Len(SPADE_PREFIX))
    IN  SubSeq(rest, 1, RunLen(rest, FALSE))

\* C3: a config_text that starts with 'spade' and names no recognized norm
\* type raises ValueError, and no object is built.
C3_UnrecognizedNormIsValueError ==
    \A n \in 1..Len(ctor) :
        ( /\ StartsWith(ctor[n].config_text, SPADE_PREFIX)
          /\ NormPart(ctor[n].config_text) \notin RecognizedNorms )
        => (ctor[n].raised = "ValueError" /\ spade = <<>>)

\* The part of C3 the code keeps: such a config_text builds no object, and
\* raises ValueError when the pattern matches it.
C3_UnrecognizedNormBuildsNothing ==
    \A n \in 1..Len(ctor) :
        ( /\ StartsWith(ctor[n].config_text, SPADE_PREFIX)
          /\ NormPart(ctor[n].config_text) \notin RecognizedNorms )
        => /\ spade = <<>>
           /\ ctor[n].raised \in {"ValueError", "AttributeError"}
           /\ ReSearch(ctor[n].config_text).matched => ctor[n].raised = "ValueError"

(***************************************************************************)
(* Claims about Pix2pixDataset                                             *)
(***************************************************************************)
\* The file name of a path without its directory and extension.
Stem(path) == Splitext(Basename(path))[1]

\* C4: after an initialize that raised nothing, with the pairing check on,
\* every index below dataset_size has a label, an image and an input path, and
\* the three have the same file name without directory and extension.
C4_EveryIndexIsPaired ==
    \A n \in 1..Len(ds) :
        (ds[n].raised = "" /\ ~opt[1].no_pairing_check) =>
            \A i \in 0..(ds[n].dataset_size - 1) :
                /\ i + 1 <= Len(ds[n].label_paths)
                /\ i + 1 <= Len(ds[n].image_paths)
                /\ i + 1 <= Len(ds[n].input_paths)
                /\ Stem(ds[n].label_paths[i + 1]) = Stem(ds[n].image_paths[i + 1])
                /\ Stem(ds[n].label_paths[i + 1]) = Stem(ds[n].input_paths[i + 1])

\* The part of C4 the code keeps: the indexes below the shortest list.
C4_ZippedIndexesArePaired ==
    \A n \in 1..Len(ds) :
        (ds[n].raised = "" /\ ~opt[1].no_pairing_check) =>
            \A i \in 0..(ZipLen(ds[n].label_paths, ds[n].image_paths,
                                ds[n].input_paths) - 1) :
                /\ Stem(ds[n].label_paths[i + 1]) = Stem(ds[n].image_paths[i + 1])
                /\ Stem(ds[n].label_paths[i + 1]) = Stem(ds[n].input_paths[i + 1])

\* C5: with no_pairing_check set, __getitem__ at a valid index of an
\* initialized dataset raises no AssertionError over file names.
C5_NoPairingCheckNeverAsserts ==
    \A n \in 1..Len(item) :
        opt[1].no_pairing_check => item[n].raised # "AssertionError"

(***************************************************************************)
(* Claims about get_nonspade_norm_layer                                    *)
(***************************************************************************)
\* The normalization a norm_type denotes: the text after an optional
\* 'spectral'.
Denoted(norm_type) ==
    IF StartsWith(norm_type, SPECTRAL) THEN SliceFrom(norm_type, Len(SPECTRAL))
    ELSE norm_type

\* The class of the layer each supported name asks for.
NonSpadeClass(name) ==
    IF name = BATCH_NAME THEN "BatchNorm2d"
    ELSE IF name = SYNC_BATCH_NAME THEN "SynchronizedBatchNorm2d"
    ELSE "InstanceNorm2d"

\* C6: add_norm_layer raises ValueError for a norm_type that denotes none of
\* none, batch, sync_batch and instance, and for one that denotes batch,
\* sync_batch or instance it returns the layer followed by that normalization.
C6_NormTypeDecidesResult ==
    \A n \in 1..Len(nn) :
        nn[n].layer # <<>> =>
            /\ Denoted(nn[n].norm_type)
                 \notin {NONE_NAME, BATCH_NAME, SYNC_BATCH_NAME, INSTANCE_NAME}
               => nn[n].raised = "ValueError"
            /\ Denoted(nn[n].norm_type)
                 \in {BATCH_NAME, SYNC_BATCH_NAME, INSTANCE_NAME}
               => /\ nn[n].raised = ""
                  /\ Len(nn[n].returned) = 2
                  /\ nn[n].returned[2].cls = NonSpadeClass(Denoted(nn[n].norm_type))

\* The part of C6 the code keeps: the norm types with the 'spectral' prefix
\* and something after it.
C6_SpectralNormTypeDecidesResult ==
    \A n \in 1..Len(nn) :
        ( /\ nn[n].layer # <<>>
          /\ StartsWith(nn[n].norm_type, SPECTRAL)
          /\ Len(nn[n].norm_type) > Len(SPECTRAL) ) =>
            /\ Denoted(nn[n].norm_type)
                 \notin {NONE_NAME, BATCH_NAME, SYNC_BATCH_NAME, INSTANCE_NAME}
               => nn[n].raised = "ValueError"
            /\ Denoted(nn[n].norm_type)
                 \in {BATCH_NAME, SYNC_BATCH_NAME, INSTANCE_NAME}
               => /\ nn[n].raised = ""
                  /\ Len(nn[n].returned) = 2
                  /\ nn[n].returned[2].cls = NonSpadeClass(Denoted(nn[n].norm_type))

====
